---- MODULE Spec2Model ----
(***************************************************************************)
(* A model of the boundary-tag memory allocator of SystemSoftware_Lab1:    *)
(* the block layer (block.h, block.c), the allocator core (allocator.c)    *)
(* and the page provider it calls (kernel.c).                              *)
(*                                                                         *)
(* An address is a pair <<a, off>>: the arena (mapping) a and the byte     *)
(* offset off from the base of that mapping; arena 0 is the unmapped page  *)
(* at address zero, so NULL is <<0, 0>>.  Memory holds block headers only: *)
(* mem[a] maps the offset of every header written in arena a to its three  *)
(* size_t fields.  size_t arithmetic is done modulo 2^SIZE_BITS.           *)
(***************************************************************************)
EXTENDS Integers, Sequences, FiniteSets, TLC

\* ------------------------------------------------------------------ bounds

\* Number of distinct mappings the page provider can hand out at a time.
MaxArenas == 3

\* Number of pointers the caller holds at a time.
MaxLive == 2

\* Number of calls the caller makes.
MaxCalls == 4

\* Number of calls followed from a state in which three blocks are held.
MaxCallsHeld == 3

\* Width of size_t in the model.
SIZE_BITS == 20

\* --------------------------------------------------------------- constants

ALIGN == 16

ALLOCATOR_PAGE_SIZE == 4096

ALLOCATOR_ARENA_PAGES == 16

SIZEOF_BLOCK == 24

SIZEOF_TREE_NODE == 64

SIZE_MOD == 2 ^ SIZE_BITS

SIZE_MAX == SIZE_MOD - 1

\* size_t addition and subtraction
Add(x, y) == (x + y) % SIZE_MOD

Sub(x, y) == (x - y + SIZE_MOD) % SIZE_MOD

ROUND_BYTES(x) == Add(x, ALIGN - 1) - (Add(x, ALIGN - 1) % ALIGN)

BLOCK_STRUCT_SIZE == ROUND_BYTES(SIZEOF_BLOCK)

BLOCK_SIZE_MIN == ROUND_BYTES(SIZEOF_TREE_NODE)

ARENA_SIZE == ALLOCATOR_ARENA_PAGES * ALLOCATOR_PAGE_SIZE

BLOCK_SIZE_MAX == ARENA_SIZE - BLOCK_STRUCT_SIZE

\* The size a request is worked with: at least BLOCK_SIZE_MIN, rounded up
\* to ALIGN.
Normalised(size) ==
    ROUND_BYTES(IF size < BLOCK_SIZE_MIN THEN BLOCK_SIZE_MIN ELSE size)

BLOCK_OCCUPIED == 1

BLOCK_LAST == 2

ArenaIds == 1 .. MaxArenas

NULL == <<0, 0>>

\* ------------------------------------------------------------- block layer

\* The header stored at b; bytes never written as a header read as zero
\* (fresh anonymous pages).
Hdr(m, b) ==
    IF b[1] \in DOMAIN m /\ b[2] \in DOMAIN m[b[1]]
    THEN m[b[1]][b[2]]
    ELSE [size_curr |-> 0, size_prev |-> 0, offset |-> 0]

Store(m, b, h) == [m EXCEPT ![b[1]] = (b[2] :> h) @@ @]

\* The header at b stops being a header: its bytes are payload of a block.
Forget(m, b) ==
    [m EXCEPT ![b[1]] = [o \in (DOMAIN @) \ {b[2]} |-> @[o]]]

Flags(raw) == raw % 4

block_to_payload(block) == <<block[1], Add(block[2], BLOCK_STRUCT_SIZE)>>

payload_to_block(ptr) == <<ptr[1], ptr[2] - BLOCK_STRUCT_SIZE>>

block_get_size_curr(m, block) ==
    Hdr(m, block).size_curr - Flags(Hdr(m, block).size_curr)

block_set_size_curr(m, block, size) ==
    Store(m, block,
          [Hdr(m, block) EXCEPT !.size_curr = size + Flags(Hdr(m, block).size_curr)])

block_set_size_prev(m, block, size) ==
    Store(m, block, [Hdr(m, block) EXCEPT !.size_prev = size])

block_get_size_prev(m, block) == Hdr(m, block).size_prev

block_get_flag_busy(m, block) == Hdr(m, block).size_curr % 2 = 1

block_set_flag_busy(m, block) ==
    IF block_get_flag_busy(m, block) THEN m
    ELSE Store(m, block,
               [Hdr(m, block) EXCEPT !.size_curr = @ + BLOCK_OCCUPIED])

block_clr_flag_busy(m, block) ==
    IF block_get_flag_busy(m, block)
    THEN Store(m, block,
               [Hdr(m, block) EXCEPT !.size_curr = @ - BLOCK_OCCUPIED])
    ELSE m

block_get_flag_first(m, block) == Hdr(m, block).size_prev = 0

block_get_flag_last(m, block) == (Hdr(m, block).size_curr \div 2) % 2 = 1

block_set_flag_last(m, block) ==
    IF block_get_flag_last(m, block) THEN m
    ELSE Store(m, block, [Hdr(m, block) EXCEPT !.size_curr = @ + BLOCK_LAST])

block_clr_flag_last(m, block) ==
    IF block_get_flag_last(m, block)
    THEN Store(m, block, [Hdr(m, block) EXCEPT !.size_curr = @ - BLOCK_LAST])
    ELSE m

block_set_offset(m, block, offset) ==
    Store(m, block, [Hdr(m, block) EXCEPT !.offset = offset])

block_get_offset(m, block) == Hdr(m, block).offset

block_next(m, block) ==
    <<block[1], block[2] + BLOCK_STRUCT_SIZE + block_get_size_curr(m, block)>>

block_prev(m, block) ==
    <<block[1], block[2] - BLOCK_STRUCT_SIZE - block_get_size_prev(m, block)>>

arena_init(m, block, size) ==
    block_set_flag_last(
        Store(m, block, [size_curr |-> size, size_prev |-> 0, offset |-> 0]),
        block)

block_init(m, block) ==
    block_clr_flag_last(block_clr_flag_busy(m, block), block)

\* With(x, F) is F(x): x is computed once and named by F, as a local
\* variable of the C code is.
With(x, F(_)) == F(x)

\* block_split: the memory after the call and the remainder block (NULL
\* when none is formed).
block_split(m, block, size) ==
    With(block_set_flag_busy(m, block), LAMBDA m1 :
    With(Sub(block_get_size_curr(m1, block), size), LAMBDA size_rest0 :
    IF size_rest0 >= BLOCK_STRUCT_SIZE + BLOCK_SIZE_MIN
    THEN With(size_rest0 - BLOCK_STRUCT_SIZE, LAMBDA size_rest :
         With(block_set_size_curr(m1, block, size), LAMBDA m2 :
         With(block_next(m2, block), LAMBDA block_r :
         With(block_set_offset(
                  block_set_size_prev(
                      block_set_size_curr(block_init(m2, block_r),
                                          block_r, size_rest),
                      block_r, size),
                  block_r,
                  Add(Add(block_get_offset(m2, block), size),
                      BLOCK_STRUCT_SIZE)), LAMBDA m6 :
         [mem |-> IF block_get_flag_last(m6, block)
                  THEN block_set_flag_last(
                           block_clr_flag_last(m6, block), block_r)
                  ELSE block_set_size_prev(m6, block_next(m6, block_r),
                                           size_rest),
          r |-> block_r]))))
    ELSE [mem |-> m1, r |-> NULL]))

\* ----------------------------------------------------------- page provider

\* The allocator's state during a call: memory, the size of each mapping
\* (0: not mapped), the size index, the page-provider calls made so far in
\* this call, and how the process stands: "ok", "fatal" (a failed_kernel_*
\* exit), "fault" (an access outside every mapping), "assert" (a failed
\* assertion) or "partial" (a munmap that is not of one whole mapping).
St(m, z, t, k, s) == [mem |-> m, asz |-> z, tree |-> t, kc |-> k, st |-> s]

\* The process stops at the first failure: a later one is never reached.
Fail(S, s) == IF S.st = "ok" THEN [S EXCEPT !.st = s] ELSE S

\* block_merge: block absorbs its right neighbour block_r; its two
\* assertions come first.
block_merge(S, block, block_r) ==
    With(S.mem, LAMBDA m :
    With(Add(Add(block_get_size_curr(m, block),
                 block_get_size_curr(m, block_r)), BLOCK_STRUCT_SIZE),
         LAMBDA size :
    With(block_set_size_curr(m, block, size), LAMBDA m1 :
    IF block_get_flag_busy(m, block_r) \/ block_next(m, block) # block_r
    THEN Fail(S, "assert")
    ELSE [S EXCEPT !.mem =
              Forget(IF block_get_flag_last(m1, block_r)
                     THEN block_set_flag_last(m1, block)
                     ELSE block_set_size_prev(m1, block_next(m, block_r), size),
                     block_r)])))

PageUp(x) ==
    ((x + ALLOCATOR_PAGE_SIZE - 1) \div ALLOCATOR_PAGE_SIZE) * ALLOCATOR_PAGE_SIZE

\* kernel_alloc: mmap of size bytes.  oom is the provider's answer (ENOMEM
\* or not) and a the mapping it picks; the pages of a new mapping are zero.
kernel_alloc(S, size, oom, a) ==
    IF oom \/ a \notin ArenaIds \/ S.asz[a] # 0
    THEN [S |-> [S EXCEPT !.kc = Append(@, [fn |-> "alloc", ptr |-> NULL,
                                            size |-> size])],
          ptr |-> NULL]
    ELSE [S |-> [S EXCEPT !.asz[a] = size, !.mem[a] = <<>>,
                          !.kc = Append(@, [fn |-> "alloc", ptr |-> <<a, 0>>,
                                            size |-> size])],
          ptr |-> <<a, 0>>]

\* kernel_free: munmap(ptr, size).  munmap fails (EINVAL) on an address
\* that is not page-aligned, which is fatal; a range that is exactly one
\* mapping removes it; any other range is "partial": it takes pages away
\* from under the allocator, and the model follows the process no further.
kernel_free(S, ptr, size) ==
    IF S.st # "ok" THEN S ELSE
    With([S EXCEPT !.kc = Append(@, [fn |-> "free", ptr |-> ptr,
                                     size |-> size])], LAMBDA S1 :
    IF ptr[2] % ALLOCATOR_PAGE_SIZE # 0
    THEN Fail(S1, "fatal")
    ELSE IF /\ ptr[1] \in ArenaIds
            /\ S.asz[ptr[1]] # 0
            /\ ptr[2] = 0
            /\ PageUp(size) = PageUp(S.asz[ptr[1]])
    THEN [S1 EXCEPT !.asz[ptr[1]] = 0, !.mem[ptr[1]] = <<>>]
    ELSE Fail(S1, "partial"))

\* kernel_reset: madvise(ptr, size, MADV_DONTNEED) after the debug fill;
\* every header inside the range is overwritten.
kernel_reset(S, ptr, size) ==
    IF S.st # "ok" THEN S ELSE
    With([S EXCEPT !.kc = Append(@, [fn |-> "reset", ptr |-> ptr,
                                     size |-> size])], LAMBDA S1 :
    IF ptr[1] \notin ArenaIds \/ S.asz[ptr[1]] = 0
       \/ ptr[2] % ALLOCATOR_PAGE_SIZE # 0
       \/ ptr[2] + size > PageUp(S.asz[ptr[1]])
    THEN Fail(S1, "fatal")
    ELSE [S1 EXCEPT !.mem[ptr[1]] =
                        [o \in {x \in DOMAIN @ :
                                  x + BLOCK_STRUCT_SIZE <= ptr[2]
                                  \/ x >= ptr[2] + size} |-> @[o]]])

\* block_dontneed: discard the whole pages inside a free block.
block_dontneed(S, block) ==
    With(block_get_size_curr(S.mem, block), LAMBDA size_curr :
    With(block_get_offset(S.mem, block), LAMBDA offset :
    With(PageUp(Add(Add(offset, BLOCK_STRUCT_SIZE), SIZEOF_TREE_NODE)),
         LAMBDA offset1 :
    With(Add(Add(offset, size_curr), BLOCK_STRUCT_SIZE), LAMBDA sum2 :
    With(sum2 - (sum2 % ALLOCATOR_PAGE_SIZE), LAMBDA offset2 :
    IF Sub(size_curr, SIZEOF_TREE_NODE) < ALLOCATOR_PAGE_SIZE THEN S
    ELSE IF offset1 = offset2 THEN S
    ELSE IF Sub(offset2, offset1) % ALLOCATOR_PAGE_SIZE # 0
    THEN Fail(S, "assert")
    ELSE kernel_reset(S, <<block[1], block[2] + Sub(offset1, offset)>>,
                      Sub(offset2, offset1)))))))

\* -------------------------------------------------------------- size index

\* The index is a multiset of nodes; a node lives in the payload of its
\* block and carries the key it was inserted with.
tree_add(t, node, key) == t \cup {[node |-> node, key |-> key]}

tree_remove(t, node) == {n \in t : n.node # node}

\* The nodes tree_find_best may return: those of the least key >= size.
tree_find_best(t, size) ==
    {n \in t : n.key >= size /\ \A o \in t : o.key >= size => n.key <= o.key}

block_to_node(block) == block_to_payload(block)

node_to_block(node) == payload_to_block(node)

\* ---------------------------------------------------------- allocator core

arena_alloc(S, size, oom, a) ==
    With(IF size > BLOCK_SIZE_MAX THEN size ELSE ARENA_SIZE, LAMBDA size1 :
    With(kernel_alloc(S, size1, oom, a), LAMBDA got :
    IF got.ptr # NULL
    THEN [S |-> [got.S EXCEPT !.mem = arena_init(@, got.ptr,
                                          Sub(size1, BLOCK_STRUCT_SIZE))],
          block |-> got.ptr]
    ELSE [S |-> got.S, block |-> NULL]))

tree_add_block(S, block) ==
    IF block_get_flag_busy(S.mem, block) THEN Fail(S, "assert")
    ELSE [S EXCEPT !.tree = tree_add(@, block_to_node(block),
                                     block_get_size_curr(S.mem, block))]

tree_remove_block(S, block) ==
    IF block_get_flag_busy(S.mem, block) THEN Fail(S, "assert")
    ELSE [S EXCEPT !.tree = tree_remove(@, block_to_node(block))]

\* Whether the header at block lies inside a mapping.
Mapped(S, block) ==
    /\ block[1] \in ArenaIds
    /\ S.asz[block[1]] # 0
    /\ block[2] >= 0
    /\ block[2] + BLOCK_STRUCT_SIZE <= PageUp(S.asz[block[1]])

\* A mem_alloc that never consults the index: every request is served
\* from a fresh arena.
mem_alloc_fresh_arena(S, size, ch) ==
    With(arena_alloc(S,
             IF size > BLOCK_SIZE_MAX
             THEN Add((ROUND_BYTES(size) \div ALLOCATOR_PAGE_SIZE)
                          * ALLOCATOR_PAGE_SIZE, BLOCK_STRUCT_SIZE)
             ELSE Normalised(size),
             ch.oom, IF ch.a = 0 /\ \E a \in ArenaIds : S.asz[a] = 0
                     THEN CHOOSE a \in ArenaIds : S.asz[a] = 0 ELSE ch.a),
         LAMBDA got :
    IF size > SIZE_MAX - (ALIGN - 1) \/ got.block = NULL
    THEN [S |-> IF size > SIZE_MAX - (ALIGN - 1) THEN S ELSE got.S,
          ptr |-> NULL]
    ELSE IF size > BLOCK_SIZE_MAX
    THEN [S |-> got.S, ptr |-> block_to_payload(got.block)]
    ELSE With(block_split(got.S.mem, got.block, Normalised(size)),
              LAMBDA sp :
         With([got.S EXCEPT !.mem = sp.mem], LAMBDA S1 :
         [S |-> IF sp.r # NULL THEN tree_add_block(S1, sp.r) ELSE S1,
          ptr |-> block_to_payload(got.block)])))

\* A mem_alloc without the overflow guard of the oversized path.
mem_alloc_no_guard(S, size, ch) ==
    IF size > BLOCK_SIZE_MAX
    THEN IF FALSE
         THEN [S |-> S, ptr |-> NULL]
         ELSE With(arena_alloc(S,
                       Add((ROUND_BYTES(size) \div ALLOCATOR_PAGE_SIZE)
                               * ALLOCATOR_PAGE_SIZE, BLOCK_STRUCT_SIZE),
                       ch.oom, ch.a), LAMBDA got :
              [S |-> got.S, ptr |-> block_to_payload(got.block)])
    ELSE With(ROUND_BYTES(IF size < BLOCK_SIZE_MIN THEN BLOCK_SIZE_MIN
                          ELSE size), LAMBDA aligned_size :
         With(tree_find_best(S.tree, aligned_size), LAMBDA best :
         With(IF best = {} THEN NULL
              ELSE IF \E n \in best : n.node = ch.node THEN ch.node
              ELSE (CHOOSE n \in best : TRUE).node, LAMBDA node :
         With(IF node = NULL
              THEN arena_alloc(S, aligned_size, ch.oom, ch.a)
              ELSE [S |-> [S EXCEPT !.tree = tree_remove(@, node)],
                    block |-> node_to_block(node)], LAMBDA got :
         IF got.block = NULL THEN [S |-> got.S, ptr |-> NULL]
         ELSE IF ~Mapped(got.S, got.block)
         THEN [S |-> Fail(got.S, "fault"), ptr |-> NULL]
         ELSE With(block_split(got.S.mem, got.block, aligned_size),
                   LAMBDA sp :
              With([got.S EXCEPT !.mem = sp.mem], LAMBDA S1 :
              [S |-> IF sp.r # NULL THEN tree_add_block(S1, sp.r) ELSE S1,
               ptr |-> block_to_payload(got.block)]))))))

\* mem_alloc: the state after the call and the pointer returned.  ch holds
\* what the environment decides: ch.oom and ch.a for the page provider,
\* ch.node for the index when several nodes have the best key (and, for
\* mem_realloc, ch.victim and ch.g for a copy that leaves its mapping).
\* A node the index still holds of an arena that is no longer mapped makes
\* block_split write to unmapped memory.
mem_alloc(S, size, ch) ==
    IF size > BLOCK_SIZE_MAX
    THEN IF size > SIZE_MAX - (ALIGN - 1)
         THEN [S |-> S, ptr |-> NULL]
         ELSE With(arena_alloc(S,
                       Add((ROUND_BYTES(size) \div ALLOCATOR_PAGE_SIZE)
                               * ALLOCATOR_PAGE_SIZE, BLOCK_STRUCT_SIZE),
                       ch.oom, ch.a), LAMBDA got :
              [S |-> got.S, ptr |-> block_to_payload(got.block)])
    ELSE With(ROUND_BYTES(IF size < BLOCK_SIZE_MIN THEN BLOCK_SIZE_MIN
                          ELSE size), LAMBDA aligned_size :
         With(tree_find_best(S.tree, aligned_size), LAMBDA best :
         With(IF best = {} THEN NULL
              ELSE IF \E n \in best : n.node = ch.node THEN ch.node
              ELSE (CHOOSE n \in best : TRUE).node, LAMBDA node :
         With(IF node = NULL
              THEN arena_alloc(S, aligned_size, ch.oom, ch.a)
              ELSE [S |-> [S EXCEPT !.tree = tree_remove(@, node)],
                    block |-> node_to_block(node)], LAMBDA got :
         IF got.block = NULL THEN [S |-> got.S, ptr |-> NULL]
         ELSE IF ~Mapped(got.S, got.block)
         THEN [S |-> Fail(got.S, "fault"), ptr |-> NULL]
         ELSE With(block_split(got.S.mem, got.block, aligned_size),
                   LAMBDA sp :
              With([got.S EXCEPT !.mem = sp.mem], LAMBDA S1 :
              [S |-> IF sp.r # NULL THEN tree_add_block(S1, sp.r) ELSE S1,
               ptr |-> block_to_payload(got.block)]))))))

\* mem_free: the state after the call.
mem_free(S, ptr) ==
    IF ptr = NULL THEN S
    ELSE IF ~Mapped(S, payload_to_block(ptr)) THEN Fail(S, "fault")
    ELSE
    With(payload_to_block(ptr), LAMBDA block0 :
    With([S EXCEPT !.mem = block_clr_flag_busy(@, block0)], LAMBDA S0 :
    IF block_get_size_curr(S0.mem, block0) > BLOCK_SIZE_MAX
    THEN kernel_free(S0, block0,
             Add(block_get_size_curr(S0.mem, block0), BLOCK_STRUCT_SIZE))
    ELSE
    With(block_next(S0.mem, block0), LAMBDA block_r :
    With(IF /\ ~block_get_flag_last(S0.mem, block0)
            /\ ~block_get_flag_busy(S0.mem, block_r)
         THEN block_merge(tree_remove_block(S0, block_r), block0, block_r)
         ELSE S0, LAMBDA S1 :
    With(block_prev(S1.mem, block0), LAMBDA block_l :
    With(/\ ~block_get_flag_first(S1.mem, block0)
         /\ ~block_get_flag_busy(S1.mem, block_l), LAMBDA mergeL :
    With(IF mergeL
         THEN block_merge(tree_remove_block(S1, block_l), block_l, block0)
         ELSE S1, LAMBDA S2 :
    With(IF mergeL THEN block_l ELSE block0, LAMBDA block :
    IF /\ block_get_flag_first(S2.mem, block)
       /\ block_get_flag_last(S2.mem, block)
    THEN kernel_free(S2, block, ARENA_SIZE)
    ELSE tree_add_block(block_dontneed(S2, block), block)))))))))

\* The realloc branches that stay in place; each yields the state after.
realloc_shrink(S, block1, block_r) ==
    With(block_next(S.mem, block_r), LAMBDA block_n :
    tree_add_block(IF ~block_get_flag_busy(S.mem, block_n)
                   THEN block_merge(tree_remove_block(S, block_n),
                                    block_r, block_n)
                   ELSE S,
                   block_r))

\* A grow branch that keeps the whole merged block.
realloc_grow_no_split(S, block1, block_r, size) ==
    block_merge(tree_remove_block(S, block_r), block1, block_r)

realloc_grow(S, block1, block_r, size) ==
    With(block_merge(tree_remove_block(S, block_r), block1, block_r),
         LAMBDA S1 :
    With(block_split(S1.mem, block1, size), LAMBDA sp :
    With([S1 EXCEPT !.mem = sp.mem], LAMBDA S2 :
    IF sp.r # NULL THEN tree_add_block(S2, sp.r) ELSE S2)))

\* The byte count mem_realloc hands to memcpy.
memcpy_count(size_curr, size) == IF size_curr < size THEN size_curr ELSE size

\* A move path that hands the block back as it is.
realloc_move_stays(S, ptr1, size, size_curr, ch) ==
    [S |-> S, ptr |-> ptr1, copied |-> 0]

\* A move path that releases the old block before it asks for the new one.
realloc_move_frees_first(S, ptr1, size, size_curr, ch) ==
    With(mem_alloc(mem_free(S, ptr1), size, ch), LAMBDA got :
    [S |-> got.S, ptr |-> got.ptr,
     copied |-> IF got.ptr = NULL THEN 0 ELSE memcpy_count(size_curr, size)])

\* memcpy(dst, src, n) as far as the headers go.  A copy that ends inside
\* the mapping of dst changes no header of another block (dst is the
\* payload of the only or the last block written there).  A copy that runs
\* past the end of the mapping is undefined: the bytes beyond are not
\* mapped (victim 0: the process faults) or belong to the mapping that
\* follows, whose first header then holds the caller's bytes g (a word
\* for each field) in every word the copy reaches.
memcpy_headers(S, dst, n, victim, g) ==
    With(dst[2] + n - PageUp(S.asz[dst[1]]), LAMBDA over :
    With(SIZEOF_BLOCK \div 3, LAMBDA word :
    With(Hdr(S.mem, <<victim, 0>>), LAMBDA h :
    IF over <= 0 THEN S
    ELSE IF victim \notin ArenaIds \/ victim = dst[1] \/ S.asz[victim] = 0
    THEN Fail(S, "fault")
    ELSE [S EXCEPT !.mem = Store(@, <<victim, 0>>,
             [size_curr |-> g[1],
              size_prev |-> IF over > word THEN g[2] ELSE h.size_prev,
              offset |-> IF over > 2 * word THEN g[3] ELSE h.offset])])))

\* The move path: a new block, the copy, the release of the old one.
\* copied is the byte count handed to memcpy (0 when nothing is copied);
\* memcpy to a pointer outside every mapping is a "fault".
realloc_move(S, ptr1, size, size_curr, ch) ==
    With(mem_alloc(S, size, ch), LAMBDA got :
    With(memcpy_count(size_curr, size), LAMBDA n :
    IF got.ptr = NULL THEN [S |-> got.S, ptr |-> NULL, copied |-> 0]
    ELSE IF ~Mapped(got.S, payload_to_block(got.ptr))
    THEN [S |-> Fail(got.S, "fault"), ptr |-> got.ptr,
          copied |-> 0]
    ELSE With(memcpy_headers(got.S, got.ptr, n, ch.victim, ch.g),
              LAMBDA S1 :
         [S |-> IF S1.st # "ok" THEN S1 ELSE mem_free(S1, ptr1),
          ptr |-> got.ptr, copied |-> n])))

\* mem_realloc: the state after the call, the pointer returned and the
\* number of bytes copied.
mem_realloc(S, ptr1, size0, ch) ==
    With(ROUND_BYTES(IF size0 < BLOCK_SIZE_MIN THEN BLOCK_SIZE_MIN
                     ELSE size0), LAMBDA size :
    With(payload_to_block(ptr1), LAMBDA block1 :
    IF ptr1 = NULL
    THEN With(mem_alloc(S, size, ch), LAMBDA got :
         [S |-> got.S, ptr |-> got.ptr, copied |-> 0])
    ELSE IF ~Mapped(S, block1)
    THEN [S |-> Fail(S, "fault"), ptr |-> NULL, copied |-> 0]
    ELSE
    With(block_get_size_curr(S.mem, block1), LAMBDA size_curr :
    IF size_curr > BLOCK_SIZE_MAX
    THEN IF size = size_curr
         THEN [S |-> S, ptr |-> ptr1, copied |-> 0]
         ELSE realloc_move(S, ptr1, size, size_curr, ch)
    ELSE IF size = size_curr
    THEN [S |-> S, ptr |-> ptr1, copied |-> 0]
    ELSE
    With(block_split(S.mem, block1, size), LAMBDA sp :
    With(block_next(S.mem, block1), LAMBDA block_r :
    IF /\ size < size_curr
       /\ ~block_get_flag_last(S.mem, block1)
       /\ sp.r # NULL
    THEN [S |-> realloc_shrink([S EXCEPT !.mem = sp.mem], block1, sp.r),
          ptr |-> block_to_payload(block1), copied |-> 0]
    ELSE IF /\ size > size_curr
            /\ ~block_get_flag_last(S.mem, block1)
            /\ ~block_get_flag_busy(S.mem, block_r)
            /\ Add(Add(size_curr, block_get_size_curr(S.mem, block_r)),
                   BLOCK_STRUCT_SIZE) >= size
    THEN [S |-> realloc_grow(S, block1, block_r, size),
          ptr |-> block_to_payload(block1), copied |-> 0]
    ELSE realloc_move(
             IF size < size_curr /\ ~block_get_flag_last(S.mem, block1)
             THEN [S EXCEPT !.mem = sp.mem] ELSE S,
             ptr1, size, size_curr, ch))))))

\* ------------------------------------------------------------ the program

VARIABLES
    mem,      \* mem[a]: the headers written in mapping a, by offset
    asz,      \* asz[a]: the byte count mapping a was obtained with, 0: none
    tree,     \* blocks_tree: the size index
    live,     \* the pointers the caller holds
    call,     \* the last call: its arguments, result and provider calls
    status,   \* "ok" while the process runs
    ncalls    \* the number of calls made

vars == <<mem, asz, tree, live, call, status, ncalls>>

\* The sizes the caller asks for: the minimum, two sizes that are no
\* multiple of ALIGN, the largest ordinary block, the size just
\* above it, an oversized request that is no multiple of the page size, and
\* one above the overflow guard.
RequestSizes ==
    {0, 100, 200, BLOCK_SIZE_MAX, BLOCK_SIZE_MAX + ALIGN, 100000, SIZE_MAX - 5}

Cur == St(mem, asz, tree, <<>>, "ok")

\* What the caller may have written at the end of a payload, as the three
\* words a header is read from: zeros (pages never written), all ones, and
\* the header of a busy block that is alone in a default arena.
CallerBytes ==
    {<<0, 0, 0>>, <<SIZE_MAX, SIZE_MAX, SIZE_MAX>>,
     <<BLOCK_SIZE_MAX + BLOCK_OCCUPIED + BLOCK_LAST, 0, 0>>}

\* What the environment may decide in a call that asks mem_alloc for size
\* bytes.  A request the index can serve: which of the best-fit nodes the
\* index returns.  Any other request: whether the provider is out of
\* memory (oom) or which mapping it hands out (a).  When the call may copy
\* past the end of a mapping (copies): which mapping follows (victim, 0 for
\* none) and what the caller's bytes are (g).
Choices(size, copies) ==
    LET free == {a \in ArenaIds : asz[a] = 0}
        best == {n.node : n \in tree_find_best(tree, Normalised(size))}
        served == IF size <= BLOCK_SIZE_MAX /\ best # {}
                  THEN [oom : {FALSE}, a : {0}, node : best]
                  ELSE [oom : {TRUE}, a : {0}, node : {NULL}]
                       \cup [oom : {FALSE}, a : free, node : {NULL}]
        beyond == IF copies
                  THEN [victim : {0}, g : {<<0, 0, 0>>}]
                       \cup [victim : {a \in ArenaIds : asz[a] # 0},
                             g : CallerBytes]
                  ELSE [victim : {0}, g : {<<0, 0, 0>>}]
    IN  {[oom |-> s.oom, a |-> s.a, node |-> s.node,
          victim |-> b.victim, g |-> b.g] : s \in served, b \in beyond}

NoCall ==
    [op |-> "none", ptr |-> NULL, size |-> 0, ret |-> NULL, kc |-> <<>>,
     copied |-> 0, old |-> 0, oldlast |-> FALSE]

Init ==
    /\ mem = [a \in ArenaIds |-> <<>>]
    /\ asz = [a \in ArenaIds |-> 0]
    /\ tree = {}
    /\ live = {}
    /\ call = NoCall
    /\ status = "ok"
    /\ ncalls = 0

\* The call returns (or the process dies in it, leaving status # "ok").
Return(S, c, newlive) ==
    /\ ncalls < MaxCalls
    /\ ncalls' = ncalls + 1
    /\ call' = [c EXCEPT !.kc = S.kc]
    /\ status' = S.st
    /\ IF S.st = "ok"
       THEN mem' = S.mem /\ asz' = S.asz /\ tree' = S.tree /\ live' = newlive
       ELSE UNCHANGED <<mem, asz, tree, live>>

Alloc ==
    /\ status = "ok"
    /\ Cardinality(live) < MaxLive
    /\ \E size \in RequestSizes : \E ch \in Choices(size, FALSE) :
           With(mem_alloc(Cur, size, ch), LAMBDA r :
           Return(r.S,
                  [NoCall EXCEPT !.op = "alloc", !.size = size, !.ret = r.ptr],
                  IF r.ptr # NULL THEN live \cup {r.ptr} ELSE live))

Free ==
    /\ status = "ok"
    /\ \E ptr \in live :
           Return(mem_free(Cur, ptr),
                  [NoCall EXCEPT !.op = "free", !.ptr = ptr,
                       !.old = block_get_size_curr(mem, payload_to_block(ptr)),
                       !.oldlast =
                           block_get_flag_last(mem, payload_to_block(ptr))],
                  live \ {ptr})

Realloc ==
    /\ status = "ok"
    /\ \E ptr \in live \cup {NULL}, size \in RequestSizes :
       \E ch \in Choices(Normalised(size),
                          ptr # NULL /\ Normalised(size) > BLOCK_SIZE_MAX) :
           /\ ptr = NULL => Cardinality(live) < MaxLive
           /\ With(mem_realloc(Cur, ptr, size, ch), LAMBDA r :
              Return(r.S,
                     [NoCall EXCEPT !.op = "realloc", !.ptr = ptr,
                          !.size = size, !.ret = r.ptr, !.copied = r.copied,
                          !.old = block_get_size_curr(mem, payload_to_block(ptr)),
                          !.oldlast =
                              block_get_flag_last(mem, payload_to_block(ptr))],
                     IF r.ptr # NULL THEN (live \ {ptr}) \cup {r.ptr}
                     ELSE live))

Next == Alloc \/ Free \/ Realloc

Spec == Init /\ [][Next]_vars

\* ------------------------------------------------------- reading the state

\* The headers of mapping a met by walking block_next from its base until
\* a block flagged last (or until the walk leaves the headers written).
RECURSIVE Walk(_, _, _)
Walk(m, b, seen) ==
    IF b[2] \notin DOMAIN m[b[1]] \/ b \in seen THEN seen
    ELSE IF block_get_flag_last(m, b) THEN seen \cup {b}
    ELSE Walk(m, block_next(m, b), seen \cup {b})

MappedArenas == {a \in ArenaIds : asz[a] # 0}

BlocksOf(a) == Walk(mem, <<a, 0>>, {})

Blocks == UNION {BlocksOf(a) : a \in MappedArenas}

\* The provider calls of the last call, by function and outcome.
KernelCalls(fn) == {i \in DOMAIN call.kc : call.kc[i].fn = fn}

AllocReturned == status = "ok" /\ call.op = "alloc" /\ call.ret # NULL

\* ----------------------------------------------------------------- claims

\* C1: a non-null pointer returned by mem_alloc(s) designates a block whose
\* flag-masked size_curr is at least s.
C1_AllocGivesRequestedBytes ==
    AllocReturned =>
        block_get_size_curr(mem, payload_to_block(call.ret)) >= call.size

\* C2: whenever kernel_alloc returns NULL during mem_alloc, mem_alloc
\* returns NULL.
C2_SoftOomReturnsNull ==
    (call.op = "alloc"
        /\ \E i \in KernelCalls("alloc") : call.kc[i].ptr = NULL)
    => call.ret = NULL

\* C3: the size index holds exactly the blocks of mapped arenas whose busy
\* flag is clear and whose size is at most BLOCK_SIZE_MAX.
C3_IndexIsTheFreeBlocks ==
    {n.node : n \in tree} =
        {block_to_node(b) : b \in {x \in Blocks :
             /\ ~block_get_flag_busy(mem, x)
             /\ block_get_size_curr(mem, x) <= BLOCK_SIZE_MAX}}

\* C4: a block's busy flag is set if and only if the caller holds its
\* payload.
C4_BusyIffHeld ==
    /\ \A b \in Blocks :
           block_get_flag_busy(mem, b) <=> block_to_payload(b) \in live
    /\ \A p \in live : payload_to_block(p) \in Blocks

\* C6: for every block B that is not last, next(B).size_prev equals B's
\* flag-masked size_curr, and size_prev is 0 exactly in the first block of
\* an arena.
C6_BoundaryTagsConsistent ==
    \A b \in Blocks :
        /\ ~block_get_flag_last(mem, b) =>
               block_get_size_prev(mem, block_next(mem, b))
                   = block_get_size_curr(mem, b)
        /\ block_get_size_prev(mem, b) = 0 <=> b[2] = 0

\* C7: every block's offset field is its distance from the arena base; a
\* block that is not last ends where the next header stands, and a block
\* carries the last flag exactly when it ends at the arena's end.
BlockEnd(b) == b[2] + BLOCK_STRUCT_SIZE + block_get_size_curr(mem, b)

C7_BlocksTileTheArena ==
    \A a \in MappedArenas :
        /\ <<a, 0>> \in BlocksOf(a)
        /\ \A b \in BlocksOf(a) :
               /\ block_get_offset(mem, b) = b[2]
               /\ ~block_get_flag_last(mem, b) =>
                      /\ block_next(mem, b) \in BlocksOf(a)
                      /\ block_get_offset(mem, block_next(mem, b))
                             = BlockEnd(b)
               /\ block_get_flag_last(mem, b) <=> BlockEnd(b) = asz[a]
        /\ Cardinality({b \in BlocksOf(a) : block_get_flag_last(mem, b)}) = 1

\* The invariants the design lists for a state between calls: the
\* boundary tags agree, no two adjacent blocks are free, the index holds
\* the free blocks of ordinary size, the blocks tile their arena, and
\* every stored size is a multiple of ALIGN.
NoAdjacentFreeBlocks ==
    \A b \in Blocks :
        (~block_get_flag_last(mem, b) /\ ~block_get_flag_busy(mem, b))
        => block_get_flag_busy(mem, block_next(mem, b))

StoredSizesAligned ==
    \A b \in Blocks :
        /\ block_get_size_curr(mem, b) % ALIGN = 0
        /\ block_get_size_prev(mem, b) % ALIGN = 0
        /\ block_get_offset(mem, b) % ALIGN = 0

DesignInvariants ==
    /\ C6_BoundaryTagsConsistent
    /\ NoAdjacentFreeBlocks
    /\ C3_IndexIsTheFreeBlocks
    /\ C7_BlocksTileTheArena
    /\ StoredSizesAligned

\* C5: a call that starts in a state satisfying the design's invariants
\* and completes leaves no arena with two adjacent blocks that both have
\* the busy flag clear.
C5_NoAdjacentFreeBlocks ==
    [][(DesignInvariants /\ status' = "ok") => NoAdjacentFreeBlocks']_vars

\* C8: for an oversized request s below the overflow guard, mem_alloc asks
\* the page provider for round_up_to_page(s) + BLOCK_STRUCT_SIZE bytes and
\* the block it returns has payload size round_up_to_page(s).
OversizedAlloc ==
    /\ call.op = "alloc"
    /\ call.size > BLOCK_SIZE_MAX
    /\ call.size <= SIZE_MAX - (ALIGN - 1)

C8_OversizedArenaRoundsUp ==
    (status = "ok" /\ OversizedAlloc) =>
        /\ KernelCalls("alloc") # {}
        /\ \A i \in KernelCalls("alloc") :
               call.kc[i].size = PageUp(call.size) + BLOCK_STRUCT_SIZE
        /\ \A i \in KernelCalls("alloc") : call.kc[i].ptr # NULL =>
               block_get_size_curr(mem, payload_to_block(call.ret))
                   = PageUp(call.size)

\* C9: a successful request above BLOCK_SIZE_MAX is served by an arena of
\* its own whose single block has size_curr > BLOCK_SIZE_MAX and is not in
\* the index; a request of at most BLOCK_SIZE_MAX is served from an arena
\* of ARENA_SIZE bytes.
C9_OversizedBlockIsClassified ==
    (AllocReturned /\ call.ret[1] \in MappedArenas) =>
        IF call.size > BLOCK_SIZE_MAX
        THEN /\ block_get_size_curr(mem, payload_to_block(call.ret))
                    > BLOCK_SIZE_MAX
             /\ BlocksOf(call.ret[1]) = {payload_to_block(call.ret)}
             /\ \A n \in tree : n.node # call.ret
        ELSE asz[call.ret[1]] = ARENA_SIZE

\* C10: mem_realloc(p, s) on a non-oversized block B with normalised s
\* below B's size, where B is last or block_split forms no remainder,
\* returns p, leaves B at its size and calls neither the page provider nor
\* mem_alloc or mem_free.
ShrinkWithoutSplit ==
    /\ status = "ok"
    /\ call.op = "realloc"
    /\ call.ptr # NULL
    /\ call.old <= BLOCK_SIZE_MAX
    /\ Normalised(call.size) < call.old
    /\ \/ call.oldlast
       \/ call.old - Normalised(call.size) < BLOCK_STRUCT_SIZE + BLOCK_SIZE_MIN

MovedRealloc ==
    /\ status = "ok"
    /\ call.op = "realloc"
    /\ call.ptr # NULL
    /\ call.ret # NULL
    /\ call.ret # call.ptr

\* C11: a mem_realloc that moves the data copies min(old block size,
\* normalised new size) bytes, and that count never exceeds the payload
\* size of the newly allocated block.
C11_CopyFitsNewBlock ==
    MovedRealloc =>
        /\ call.copied = memcpy_count(call.old, Normalised(call.size))
        /\ call.copied
               <= block_get_size_curr(mem, payload_to_block(call.ret))

\* The call that just returned got NULL from mem_alloc or mem_realloc
\* after the page provider reported soft out-of-memory.
SoftOomNull ==
    /\ status = "ok"
    /\ call.op \in {"alloc", "realloc"}
    /\ call.ret = NULL
    /\ \E i \in KernelCalls("alloc") : call.kc[i].ptr = NULL

\* C12: when mem_alloc or mem_realloc returns NULL because of soft
\* out-of-memory, every arena's headers, the mappings and the size index
\* are as they were before the call, the caller holds what it held, and
\* for mem_realloc the original block is still live at its original size.
C12_SoftOomLeavesStateUnchanged ==
    [][SoftOomNull' =>
          /\ mem' = mem
          /\ asz' = asz
          /\ tree' = tree
          /\ live' = live
          /\ (call'.op = "realloc" /\ call'.ptr # NULL) =>
                 /\ call'.ptr \in live'
                 /\ block_get_size_curr(mem', payload_to_block(call'.ptr))
                        = call'.old]_vars

\* Reached: mem_realloc of a live block took the move path, the provider
\* was out of memory and the call returned NULL while the index holds a
\* free block.
C12_Witness ==
    /\ SoftOomNull
    /\ call.op = "realloc"
    /\ call.ptr # NULL
    /\ tree # {}

\* C13: mem_realloc(NULL, s) returns what mem_alloc(s) returns from the
\* same state, for some decision of the environment, and leaves the state
\* that call leaves.
C13_ReallocNullIsAlloc ==
    [][(call'.op = "realloc" /\ call'.ptr = NULL) =>
          \E ch \in Choices(call'.size, FALSE) :
              With(mem_alloc(Cur, call'.size, ch), LAMBDA r :
                  /\ call'.ret = r.ptr
                  /\ status' = r.S.st
                  /\ call'.kc = r.S.kc
                  /\ r.S.st = "ok" =>
                         /\ mem' = r.S.mem
                         /\ asz' = r.S.asz
                         /\ tree' = r.S.tree)]_vars

\* C14: every kernel_free call passes the base of a mapped arena and the
\* byte count that arena was obtained with; a completed mem_free releases
\* the arena exactly when the freed block is oversized or every other
\* block of its arena is free (the block is first and last once
\* coalesced); and no live pointer is left in an arena just released.
C14_ArenaReleasedWhole ==
    [][/\ \A i \in DOMAIN call'.kc : call'.kc[i].fn = "free" =>
              /\ call'.kc[i].ptr[1] \in ArenaIds
              /\ call'.kc[i].ptr[2] = 0
              /\ asz[call'.kc[i].ptr[1]] # 0
              /\ call'.kc[i].size = asz[call'.kc[i].ptr[1]]
              /\ status' = "ok" =>
                     \A p \in live' : p[1] # call'.kc[i].ptr[1]
       /\ (call'.op = "free" /\ status' = "ok") =>
              /\ (\E i \in DOMAIN call'.kc : call'.kc[i].fn = "free")
                  <=> \/ call'.old > BLOCK_SIZE_MAX
                      \/ \A o \in BlocksOf(call'.ptr[1])
                                   \ {payload_to_block(call'.ptr)} :
                             ~block_get_flag_busy(mem, o)]_vars

\* C15: a mem_alloc of an ordinary request with normalised size s that
\* completes returns the indexed block of least indexed size >= s it
\* took from the index and calls the page
\* provider only when the index has no size >= s; and when the block just
\* freed stayed in the index at its own size, which no other indexed block
\* has, a mem_alloc of exactly that size returns its address.
C15_BestFitFromIndex ==
    [][(status' = "ok" /\ call'.op = "alloc"
            /\ call'.size <= BLOCK_SIZE_MAX) =>
          /\ IF \E n \in tree : n.key >= Normalised(call'.size)
             THEN /\ call'.kc = <<>>
                  /\ \E n \in tree :
                         /\ n.node = call'.ret
                         /\ n.key >= Normalised(call'.size)
                         /\ \A o \in tree :
                                o.key >= Normalised(call'.size)
                                    => n.key <= o.key
             ELSE /\ Len(call'.kc) = 1
                  /\ call'.kc[1].fn = "alloc"
                  /\ call'.kc[1].size = ARENA_SIZE
          /\ (/\ call.op = "free"
              /\ status = "ok"
              /\ Normalised(call'.size) = call.old
              /\ [node |-> call.ptr, key |-> call.old] \in tree
              /\ \A n \in tree : n.key = call.old => n.node = call.ptr)
             => call'.ret = call.ptr]_vars

\* Reached: mem_alloc took from the index, without a provider call and
\* without a split, a block of exactly the normalised size that lies
\* before a busy block, while a larger free block stays indexed.
C15_Witness ==
    /\ AllocReturned
    /\ call.kc = <<>>
    /\ call.ret[1] \in MappedArenas
    /\ block_get_size_curr(mem, payload_to_block(call.ret))
           = Normalised(call.size)
    /\ ~block_get_flag_last(mem, payload_to_block(call.ret))
    /\ block_get_flag_busy(mem,
                           block_next(mem, payload_to_block(call.ret)))
    /\ \E n \in tree : n.key > Normalised(call.size)

\* C16: every size passed to kernel_alloc, for a default and for an
\* oversized arena, is a whole multiple of ALLOCATOR_PAGE_SIZE.
C16_KernelAllocSizesArePages ==
    \A i \in KernelCalls("alloc") :
        call.kc[i].size % ALLOCATOR_PAGE_SIZE = 0

\* Sizes on both sides of the overflow guard.
GuardSizes == (SIZE_MAX - 2 * ALIGN) .. SIZE_MAX

\* C17: with size_t of SIZE_BITS bits, mem_alloc(s) for s above
\* SIZE_MAX - (ALIGN - 1) returns NULL without a page-provider call, from
\* every state and whatever the environment decides; for every other
\* oversized s, s + ALIGN - 1 and the arena size computed from it stay
\* below 2^SIZE_BITS, and the size that reaches kernel_alloc is the one
\* computed without wrap-around.
C17_OverflowGuard ==
    /\ \A s \in GuardSizes : s > SIZE_MAX - (ALIGN - 1) =>
           \A ch \in Choices(s, FALSE) :
               /\ mem_alloc(Cur, s, ch).ptr = NULL
               /\ mem_alloc(Cur, s, ch).S = Cur
    /\ \A s \in GuardSizes \cup RequestSizes :
           (s > BLOCK_SIZE_MAX /\ s <= SIZE_MAX - (ALIGN - 1)) =>
               /\ s + (ALIGN - 1) < SIZE_MOD
               /\ ROUND_BYTES(s) = s + (ALIGN - 1) - ((s + (ALIGN - 1)) % ALIGN)
               /\ (ROUND_BYTES(s) \div ALLOCATOR_PAGE_SIZE)
                      * ALLOCATOR_PAGE_SIZE + BLOCK_STRUCT_SIZE < SIZE_MOD
    /\ (call.op = "alloc" /\ call.size > SIZE_MAX - (ALIGN - 1)) =>
           call.ret = NULL /\ call.kc = <<>>
    /\ OversizedAlloc =>
           \A i \in KernelCalls("alloc") :
               call.kc[i].size =
                   IF (ROUND_BYTES(call.size) \div ALLOCATOR_PAGE_SIZE)
                          * ALLOCATOR_PAGE_SIZE + BLOCK_STRUCT_SIZE
                      > BLOCK_SIZE_MAX
                   THEN (ROUND_BYTES(call.size) \div ALLOCATOR_PAGE_SIZE)
                            * ALLOCATOR_PAGE_SIZE + BLOCK_STRUCT_SIZE
                   ELSE ARENA_SIZE

\* Reached: mem_alloc was called with a size above the guard while an
\* arena is mapped and the index holds a free block.
C17_Witness ==
    /\ status = "ok"
    /\ call.op = "alloc"
    /\ call.size > SIZE_MAX - (ALIGN - 1)
    /\ call.ret = NULL
    /\ tree # {}

\* C18: every flag-masked size_curr, every size_prev and every offset
\* stored in a block header is a multiple of ALIGN, and every pointer
\* returned by mem_alloc or mem_realloc lies at a multiple of ALIGN from
\* the base of its arena.
C18_SizesAndPointersAligned ==
    /\ StoredSizesAligned
    /\ (status = "ok" /\ call.op \in {"alloc", "realloc"}
           /\ call.ret # NULL)
       => call.ret[2] % ALIGN = 0

\* The block of the pointer passed to the call that just returned, and
\* its right neighbour, as they stood before the call.
GrowFits(m, block, size_curr, size) ==
    /\ ~block_get_flag_last(m, block)
    /\ ~block_get_flag_busy(m, block_next(m, block))
    /\ Add(Add(size_curr, block_get_size_curr(m, block_next(m, block))),
           BLOCK_STRUCT_SIZE) >= size

\* C19: a completed mem_realloc(p, s) on an ordinary block B of size c
\* with normalised s > c.  If B is not last, next(B) is free and
\* c + size(next(B)) + BLOCK_STRUCT_SIZE >= s, the call returns p without
\* a page-provider call, B is busy with size >= s, next(B) has left the
\* index, and the remainder of the split, if one is formed, is free and
\* indexed at its size.  In every other such case the move path is taken.
C19_GrowInPlace ==
    [][(/\ status' = "ok"
        /\ call'.op = "realloc"
        /\ call'.ptr # NULL
        /\ call'.old <= BLOCK_SIZE_MAX
        /\ Normalised(call'.size) > call'.old) =>
          IF GrowFits(mem, payload_to_block(call'.ptr), call'.old,
                      Normalised(call'.size))
          THEN /\ call'.ret = call'.ptr
               /\ call'.kc = <<>>
               /\ live' = live
               /\ block_get_flag_busy(mem', payload_to_block(call'.ptr))
               /\ block_get_size_curr(mem', payload_to_block(call'.ptr))
                      >= Normalised(call'.size)
               /\ \A n \in tree' :
                      n.node # block_to_node(
                                   block_next(mem,
                                              payload_to_block(call'.ptr)))
               /\ With(block_get_size_curr(mem,
                            block_next(mem, payload_to_block(call'.ptr)))
                           + call'.old + BLOCK_STRUCT_SIZE
                           - Normalised(call'.size),
                       LAMBDA rest :
                   With(block_next(mem', payload_to_block(call'.ptr)),
                       LAMBDA block_n :
                   IF rest >= BLOCK_STRUCT_SIZE + BLOCK_SIZE_MIN
                   THEN /\ block_get_size_curr(mem',
                               payload_to_block(call'.ptr))
                               = Normalised(call'.size)
                        /\ ~block_get_flag_busy(mem', block_n)
                        /\ [node |-> block_to_node(block_n),
                             key |-> rest - BLOCK_STRUCT_SIZE] \in tree'
                        /\ block_get_size_curr(mem', block_n)
                               = rest - BLOCK_STRUCT_SIZE
                   ELSE block_get_size_curr(mem',
                            payload_to_block(call'.ptr))
                            = Normalised(call'.size) + rest))
          ELSE /\ call'.ret # call'.ptr
               /\ call'.ret # NULL => call'.copied = call'.old]_vars

\* Reached: mem_realloc grew a block in place into its free right
\* neighbour and the remainder of the split is indexed.
C19_Witness ==
    /\ status = "ok"
    /\ call.op = "realloc"
    /\ call.ptr # NULL
    /\ call.ret = call.ptr
    /\ call.old <= BLOCK_SIZE_MAX
    /\ Normalised(call.size) > call.old
    /\ block_get_size_curr(mem, payload_to_block(call.ptr))
           = Normalised(call.size)
    /\ \E n \in tree :
           n.node = block_to_node(block_next(mem, payload_to_block(call.ptr)))

\* C20: every discard (kernel_reset) issued by block_dontneed for a block
\* B freed through mem_free succeeds, covers whole pages, has positive
\* length, starts at or after the end of the index node embedded in B and
\* ends at or before the end of B.
C20_DiscardStaysInsideBlock ==
    \A i \in KernelCalls("reset") :
        /\ status = "ok"
        /\ call.kc[i].ptr[2] % ALLOCATOR_PAGE_SIZE = 0
        /\ call.kc[i].size % ALLOCATOR_PAGE_SIZE = 0
        /\ call.kc[i].size > 0
        /\ \E b \in Blocks :
               /\ b[1] = call.kc[i].ptr[1]
               /\ ~block_get_flag_busy(mem, b)
               /\ b[2] + BLOCK_STRUCT_SIZE + SIZEOF_TREE_NODE
                      <= call.kc[i].ptr[2]
               /\ call.kc[i].ptr[2] + call.kc[i].size <= BlockEnd(b)

\* C21: in a sequence of calls whose freed and reallocated pointers are held
\* by the caller, no assertion of the allocator fails: tree_add_block and
\* tree_remove_block meet only blocks with the busy flag clear, and
\* block_merge only a right operand that is not busy and stands where the
\* left operand ends.
C21_NoAssertionFails == status # "assert"

\* A caller that already holds blocks: the states mem_alloc leaves after
\* three calls on the empty allocator (a call for SIZE_MAX bytes is
\* refused and changes nothing), the provider handing out the mappings in
\* order; MaxCallsHeld further calls are followed from there.
HeldSizes == {100, 100000, SIZE_MAX}

FirstFit(S) ==
    [oom |-> FALSE,
     a |-> IF \E a \in ArenaIds : S.asz[a] = 0
           THEN CHOOSE a \in ArenaIds :
                    S.asz[a] = 0 /\ \A b \in ArenaIds : S.asz[b] = 0 => a <= b
           ELSE 0,
     node |-> NULL, victim |-> 0, g |-> <<0, 0, 0>>]

InitHeld ==
    \E s1 \in HeldSizes, s2 \in HeldSizes, s3 \in HeldSizes :
        With(St([a \in ArenaIds |-> <<>>], [a \in ArenaIds |-> 0], {},
                <<>>, "ok"), LAMBDA S0 :
        With(mem_alloc(S0, s1, FirstFit(S0)), LAMBDA r1 :
        With(mem_alloc(r1.S, s2, FirstFit(r1.S)), LAMBDA r2 :
        With(mem_alloc(r2.S, s3, FirstFit(r2.S)), LAMBDA r3 :
            /\ mem = r3.S.mem
            /\ asz = r3.S.asz
            /\ tree = r3.S.tree
            /\ live = {r1.ptr, r2.ptr, r3.ptr} \ {NULL}
            /\ call = NoCall
            /\ status = "ok"
            /\ ncalls = MaxCalls - MaxCallsHeld))))

SpecHeld == InitHeld /\ [][Next]_vars

\* C22: the payloads [ptr, ptr + size_curr) of two distinct pointers the
\* caller holds are disjoint, and each lies inside a mapped arena, after
\* its block's header and before the next header or the arena's end.
PayloadEnd(ptr) == ptr[2] + block_get_size_curr(mem, payload_to_block(ptr))

C22_LivePayloadsDisjoint ==
    /\ \A p \in live :
           /\ p[1] \in MappedArenas
           /\ payload_to_block(p) \in BlocksOf(p[1])
           /\ PayloadEnd(p) <= asz[p[1]]
           /\ \A b \in BlocksOf(p[1]) :
                  b[2] <= payload_to_block(p)[2] \/ PayloadEnd(p) <= b[2]
    /\ \A p \in live, q \in live :
           (p # q /\ p[1] = q[1] /\ p[2] < q[2]) =>
               /\ p[1] \in MappedArenas
               /\ PayloadEnd(p) <= q[2]

\* C23: whenever the caller holds no pointer (all that was returned has
\* been freed or replaced by a realloc that moved it), no arena is mapped
\* and the size index is empty.
C23_NoArenaLeaked ==
    (status = "ok" /\ live = {}) => (MappedArenas = {} /\ tree = {})

\* C24: a call of mem_alloc, mem_free(p) or mem_realloc(p, s) that
\* completes leaves every block the caller holds, other than the block of
\* p, at its address, with its flag-masked size_curr and its busy flag.
C24_OtherLiveBlocksUntouched ==
    [][status' = "ok" =>
          \A q \in live \ {call'.ptr} :
              /\ q \in live'
              /\ block_get_size_curr(mem', payload_to_block(q))
                     = block_get_size_curr(mem, payload_to_block(q))
              /\ block_get_flag_busy(mem', payload_to_block(q))
                     = block_get_flag_busy(mem, payload_to_block(q))]_vars


====
